---- MODULE Spec2Model ----
(***************************************************************************)
(* Model of steamcontrollersynth.py: the MIDI output port                  *)
(* steam_controller_mido_port (its two allocation policies single_voice    *)
(* and polyphony, and _send), and the two loops that feed it: play_song    *)
(* (file playback) and the live input loop at the bottom of the script.    *)
(*                                                                         *)
(* A physical channel i is the haptic pad (controller i \div 2,            *)
(* haptic i % 2).  A pulse command is the call                             *)
(* steam_controller_play_note(controllers[controller], haptic, note).      *)
(***************************************************************************)
EXTENDS Integers, Sequences, FiniteSets, TLC

\* ---------------------------------------------------------------- bounds
\* Largest number of controllers (args.controllers) explored.
MaxControllers == 2
\* Largest number of messages pulled from the event source in one run.
MaxEvents == 4

\* ---------------------------------------------------------------- inputs
\* MIDI channels, notes and velocities the event source may produce.
SourceChannels == {0, 1, 2}
Notes == {60, 64}
Velocities == {0, 100}
\* Values of args.logic: the two policies and one unrecognized name.
Logics == {"single_voice", "polyphony", "monophonic"}

\* ---------------------------------------------------------------- constants
note_stop == -1
\* Marks a physical channel that no command was ever issued to.
Never == note_stop - 1
\* An empty entry of self.queue (Python None).
None == [channel |-> -1, note |-> -1]

\* ---------------------------------------------------------------- messages
NoteOn(c, n, v) == [type |-> "note_on", channel |-> c, note |-> n, velocity |-> v]
NoteOff(c, n) == [type |-> "note_off", channel |-> c, note |-> n, velocity |-> 64]
\* mido.Message('stop'): a system real-time message, it has a type only.
StopMsg == [type |-> "stop"]
\* A system exclusive message, as mid.play() yields it from a file that holds
\* one: like 'stop' it has no channel and no note.
SysexMsg == [type |-> "sysex"]
\* No message has been sent yet.
NoMsg == [type |-> "none"]

Messages ==
    {NoteOn(c, n, v) : c \in SourceChannels, n \in Notes, v \in Velocities}
    \cup {NoteOff(c, n) : c \in SourceChannels, n \in Notes}
    \cup {StopMsg, SysexMsg}

VARIABLES
    mode,            \* "file": play_song; "live": the live input loop
    logic,           \* self.logic
    controllers,     \* len(self.controllers)
    channels,        \* self.channels = len(self.controllers)*2-1
    previous_notes,  \* self.previous_notes
    queue,           \* self.queue, indexed by physical channel 0..channels
    pc,              \* "wait": suspended on the event source; "done": the
                     \* script returned; "killed": ended by an uncaught exception
    exc,             \* the uncaught exception that ended the process
    sig,             \* termination signal seen: "none", "eof", "interrupt"
    nev,             \* messages pulled from the event source so far
    finalStops,      \* times the except handler sent mido.Message('stop')
    sent,            \* the message most recently passed to port.send
    queue0,          \* self.queue as it was when that message was sent
    out,             \* the pulse commands issued while handling that message
    last,            \* per physical channel, the note of the last command
    pending,         \* per (channel, note) pair, the note-ons (velocity > 0)
                     \* sent so far that no later note-off has answered yet
    stopSeen,        \* a stop message has been sent to the port
    dropped          \* polyphony has ignored a note-on because no slot was free

vars == <<mode, logic, controllers, channels, previous_notes, queue, pc, exc,
          sig, nev, finalStops, sent, queue0, out, last, pending, stopSeen,
          dropped>>

\* ---------------------------------------------------------------- helpers
MinOf(S) == CHOOSE x \in S : \A y \in S : x <= y

\* The physical channel a pulse command drives.
ChannelOf(cmd) == cmd.controller * 2 + cmd.haptic

\* steam_controller_play_note without its try/except: a failed ctrl_transfer
\* raises USBError to the caller.
steam_controller_play_note_raises(controller, haptic, note, fail) ==
    [cmd |-> [controller |-> controller, haptic |-> haptic, note |-> note,
              error |-> fail],
     raised |-> IF fail THEN "USBError" ELSE "none"]

\* steam_controller_play_note: one ctrl_transfer; a USBError is caught and
\* printed, nothing is raised to the caller.
steam_controller_play_note(controller, haptic, note, fail) ==
    [cmd |-> [controller |-> controller, haptic |-> haptic, note |-> note,
              error |-> fail],
     raised |-> "none"]

\* FirstFree with the scan run from the top index downward.
FirstFree_descending(q) ==
    LET free == {i \in DOMAIN q : q[i] = None}
    IN IF free = {} THEN -1 ELSE CHOOSE x \in free : \A y \in free : x >= y

\* First index i of self.queue with self.queue[i] == None, or -1.
FirstFree(q) ==
    LET free == {i \in DOMAIN q : q[i] = None}
    IN IF free = {} THEN -1 ELSE MinOf(free)

\* FirstMatch comparing the note alone, not the source channel.
FirstMatch_note_only(q, msg) ==
    LET hit == {i \in DOMAIN q : q[i] # None /\ q[i].note = msg.note}
    IN IF hit = {} THEN -1 ELSE MinOf(hit)

\* First index i whose entry is not None and has msg's channel and note, or -1.
FirstMatch(q, msg) ==
    LET hit == {i \in DOMAIN q : /\ q[i] # None
                                 /\ q[i].channel = msg.channel
                                 /\ q[i].note = msg.note}
    IN IF hit = {} THEN -1 ELSE MinOf(hit)

\* The result of a handler: the new self.queue, the commands issued in order,
\* and the exception it raised ("none" when it returned).
Result(q, cmds, raised) == [queue |-> q, cmds |-> cmds, raised |-> raised]

\* ---------------------------------------------------------------- polyphony
\* polyphony_note_on with voice stealing: a full pool gives up entry 0.
polyphony_note_on_steal(q, msg, fail) ==
    LET f == FirstFree(q)
        i == IF f = -1 THEN 0 ELSE f
        r == steam_controller_play_note(i \div 2, i % 2, msg.note, fail)
    IN Result([q EXCEPT ![i] = [channel |-> msg.channel, note |-> msg.note]],
              <<r.cmd>>, r.raised)

\* note_on with velocity != 0: the first None entry is populated with the
\* message's channel and note, then the note is played on that channel.
polyphony_note_on(q, msg, fail) ==
    LET i == FirstFree(q)
    IN IF i = -1
       THEN Result(q, <<>>, "none")
       ELSE LET r == steam_controller_play_note(i \div 2, i % 2, msg.note, fail)
            IN Result([q EXCEPT ![i] = [channel |-> msg.channel, note |-> msg.note]],
                      <<r.cmd>>, r.raised)

\* polyphony_note_on_zero without the velocity test: the message is handled as
\* any other note_on.
polyphony_note_on_zero_as_on(q, msg, fail) == polyphony_note_on(q, msg, fail)

\* note_on with velocity == 0: the first matching entry is stopped, then cleared.
polyphony_note_on_zero(q, msg, fail) ==
    LET i == FirstMatch(q, msg)
    IN IF i = -1
       THEN Result(q, <<>>, "none")
       ELSE LET r == steam_controller_play_note(i \div 2, i % 2, note_stop, fail)
            IN Result(IF r.raised = "none" THEN [q EXCEPT ![i] = None] ELSE q,
                      <<r.cmd>>, r.raised)

\* All indices, in scan order, whose entry has msg's channel and note.
RECURSIVE MatchesFrom(_, _, _)
MatchesFrom(q, msg, i) ==
    IF i \notin DOMAIN q THEN <<>>
    ELSE (IF q[i] # None /\ q[i].channel = msg.channel /\ q[i].note = msg.note
          THEN <<i>> ELSE <<>>) \o MatchesFrom(q, msg, i + 1)

\* polyphony_note_off that stops the channel but leaves the entry bound.
polyphony_note_off_keeps_slot(q, msg, fail) ==
    LET i == FirstMatch(q, msg)
    IN IF i = -1
       THEN Result(q, <<>>, "none")
       ELSE LET r == steam_controller_play_note(i \div 2, i % 2, note_stop, fail)
            IN Result(q, <<r.cmd>>, r.raised)

\* polyphony_note_off without the break: every matching entry is stopped and
\* cleared.
polyphony_note_off_no_break(q, msg, fail) ==
    LET hits == MatchesFrom(q, msg, 0)
    IN Result([i \in DOMAIN q |-> IF \E k \in DOMAIN hits : hits[k] = i
                                  THEN None ELSE q[i]],
              [k \in DOMAIN hits |->
                  steam_controller_play_note(hits[k] \div 2, hits[k] % 2,
                                             note_stop, fail).cmd],
              "none")

\* note_off: the first matching entry is stopped, then cleared.
polyphony_note_off(q, msg, fail) ==
    LET i == FirstMatch(q, msg)
    IN IF i = -1
       THEN Result(q, <<>>, "none")
       ELSE LET r == steam_controller_play_note(i \div 2, i % 2, note_stop, fail)
            IN Result(IF r.raised = "none" THEN [q EXCEPT ![i] = None] ELSE q,
                      <<r.cmd>>, r.raised)

polyphony(q, msg, fail) ==
    IF msg.type = "note_on"
    THEN IF msg.velocity = 0
         THEN polyphony_note_on_zero(q, msg, fail)
         ELSE polyphony_note_on(q, msg, fail)
    ELSE IF msg.type = "note_off"
         THEN polyphony_note_off(q, msg, fail)
         ELSE Result(q, <<>>, "none")

\* ---------------------------------------------------------------- single_voice
\* single_voice with the range test msg.channel < self.channels.
single_voice_off_by_one(chs, q, msg, fail) ==
    IF "channel" \notin DOMAIN msg
    THEN Result(q, <<>>, "AttributeError")
    ELSE IF msg.channel < chs /\ msg.type \in {"note_on", "note_off"}
         THEN LET note == IF msg.type = "note_on" /\ msg.velocity # 0
                          THEN msg.note ELSE note_stop
                  r == steam_controller_play_note(msg.channel \div 2,
                                                  msg.channel % 2, note, fail)
              IN Result(q, <<r.cmd>>, r.raised)
         ELSE Result(q, <<>>, "none")

\* single_voice without the range test: a channel above self.channels indexes
\* self.controllers past its end, which raises IndexError.
single_voice_no_range_test(chs, q, msg, fail) ==
    IF "channel" \notin DOMAIN msg
    THEN Result(q, <<>>, "AttributeError")
    ELSE IF msg.type \notin {"note_on", "note_off"}
         THEN Result(q, <<>>, "none")
         ELSE IF msg.channel > chs
              THEN Result(q, <<>>, "IndexError")
              ELSE LET note == IF msg.type = "note_on" /\ msg.velocity # 0
                               THEN msg.note ELSE note_stop
                       r == steam_controller_play_note(msg.channel \div 2,
                                                       msg.channel % 2, note, fail)
                   IN Result(q, <<r.cmd>>, r.raised)

\* Reading msg.channel of a message without that field raises AttributeError.
single_voice(chs, q, msg, fail) ==
    IF "channel" \notin DOMAIN msg
    THEN Result(q, <<>>, "AttributeError")
    ELSE IF msg.channel <= chs
         THEN LET controller == msg.channel \div 2
                  haptic == msg.channel % 2
              IN IF msg.type = "note_on"
                 THEN IF msg.velocity = 0
                      THEN LET r == steam_controller_play_note(controller, haptic, note_stop, fail)
                           IN Result(q, <<r.cmd>>, r.raised)
                      ELSE LET r == steam_controller_play_note(controller, haptic, msg.note, fail)
                           IN Result(q, <<r.cmd>>, r.raised)
                 ELSE IF msg.type = "note_off"
                      THEN LET r == steam_controller_play_note(controller, haptic, note_stop, fail)
                           IN Result(q, <<r.cmd>>, r.raised)
                      ELSE Result(q, <<>>, "none")
         ELSE Result(q, <<>>, "none")

\* ---------------------------------------------------------------- _send
\* The loop of _send for a 'stop' message: note_stop on every physical channel.
stop_all(chs, fail) ==
    [k \in 1..(chs + 1) |->
        steam_controller_play_note((k - 1) \div 2, (k - 1) % 2, note_stop, fail).cmd]

\* _send (reached through mido's BaseOutput.send): the stop loop, then the
\* dispatch on self.logic.
send(lg, chs, q, msg, fail) ==
    LET stops == IF msg.type = "stop" THEN stop_all(chs, fail) ELSE <<>>
        r == IF lg = "single_voice" THEN single_voice(chs, q, msg, fail)
             ELSE IF lg = "polyphony" THEN polyphony(q, msg, fail)
             ELSE Result(q, <<>>, "ValueError")
    IN Result(r.queue, stops \o r.cmds, r.raised)

\* The last-command table after the commands cmds were issued in order.
RECURSIVE Issue(_, _)
Issue(l, cmds) ==
    IF cmds = <<>> THEN l
    ELSE Issue([l EXCEPT ![ChannelOf(Head(cmds))] = Head(cmds).note], Tail(cmds))

\* pending after msg: a note-on with velocity > 0 adds one for its pair; a
\* note-off or velocity-zero note-on answers one that is waiting, if any.
Answered(pnd, msg) ==
    IF msg.type \notin {"note_on", "note_off"} THEN pnd
    ELSE LET p == <<msg.channel, msg.note>>
         IN IF msg.type = "note_on" /\ msg.velocity # 0
            THEN [pnd EXCEPT ![p] = @ + 1]
            ELSE [pnd EXCEPT ![p] = IF @ > 0 THEN @ - 1 ELSE 0]

\* ---------------------------------------------------------------- the loops
\* steam_controller_mido_port.__init__, for each way of starting the script:
\* play_song builds the port with args.logic, the live loop with 'polyphony'.
Init ==
    /\ mode \in {"file", "live"}
    /\ logic \in (IF mode = "live" THEN {"polyphony"} ELSE Logics)
    /\ controllers \in 1..MaxControllers
    /\ channels = controllers * 2 - 1
    /\ previous_notes = [i \in 0..channels |-> 0]
    /\ queue = [i \in 0..channels |-> None]
    /\ pc = "wait"
    /\ exc = "none"
    /\ sig = "none"
    /\ nev = 0
    /\ finalStops = 0
    /\ sent = NoMsg
    /\ queue0 = queue
    /\ out = <<>>
    /\ last = [i \in 0..channels |-> Never]
    /\ pending = [p \in SourceChannels \X Notes |-> 0]
    /\ stopSeen = FALSE
    /\ dropped = FALSE

\* The source yields msg and port.send(msg) runs to its end.  An exception it
\* raises is no KeyboardInterrupt, so neither loop catches it.
Dispatch(msg, fail) ==
    LET r == send(logic, channels, queue, msg, fail)
    IN /\ pc = "wait"
       /\ nev' = nev + 1
       /\ sent' = msg
       /\ queue0' = queue
       /\ queue' = r.queue
       /\ out' = r.cmds
       /\ last' = Issue(last, r.cmds)
       /\ pc' = IF r.raised = "none" THEN "wait" ELSE "killed"
       /\ exc' = r.raised
       /\ pending' = Answered(pending, msg)
       /\ stopSeen' = (stopSeen \/ msg.type = "stop")
       /\ dropped' = (dropped \/ (/\ logic = "polyphony"
                                  /\ msg.type = "note_on"
                                  /\ msg.velocity # 0
                                  /\ \A i \in DOMAIN queue : queue[i] # None))
       /\ UNCHANGED <<mode, logic, controllers, channels, previous_notes, sig,
                      finalStops>>

\* Dispatch, for a source of at most MaxEvents messages.
Step(msg, fail) ==
    /\ nev < MaxEvents
    /\ Dispatch(msg, fail)

\* The except KeyboardInterrupt handler of either loop:
\* port.send(mido.Message('stop')) from allocator state q and command table l.
\* play_song returns after it; the live loop goes on to the next message.
Handler(q, l, fail) ==
    LET r == send(logic, channels, q, StopMsg, fail)
    IN /\ sig' = "interrupt"
       /\ finalStops' = finalStops + 1
       /\ sent' = StopMsg
       /\ queue0' = q
       /\ queue' = r.queue
       /\ out' = r.cmds
       /\ last' = Issue(l, r.cmds)
       /\ pc' = IF r.raised # "none" THEN "killed"
                ELSE IF mode = "file" THEN "done" ELSE "wait"
       /\ exc' = r.raised
       /\ stopSeen' = TRUE
       /\ UNCHANGED <<pending, dropped>>

\* The source yields a message and a KeyboardInterrupt arrives as
\* port.send(msg) is entered, within the try block of either loop, before the
\* message has had any effect: the message is lost and the handler runs.
StepInterrupted(fail) ==
    /\ pc = "wait"
    /\ nev < MaxEvents
    /\ nev' = nev + 1
    /\ Handler(queue, last, fail)
    /\ UNCHANGED <<mode, logic, controllers, channels, previous_notes>>

\* A KeyboardInterrupt arrives while the loop is suspended on the source.  In
\* play_song the for statement is inside the try block; in the live loop the
\* for statement is outside it, and the interrupt ends the process.
InterruptWaiting(fail) ==
    /\ pc = "wait"
    /\ IF mode = "file"
       THEN Handler(queue, last, fail)
       ELSE /\ pc' = "killed"
            /\ exc' = "KeyboardInterrupt"
            /\ sig' = "interrupt"
            /\ UNCHANGED <<finalStops, sent, queue0, queue, out, last, pending,
                           stopSeen, dropped>>
    /\ UNCHANGED <<mode, logic, controllers, channels, previous_notes, nev>>

\* mid.play() is exhausted: the for loop ends and play_song returns.
EndOfFile ==
    /\ pc = "wait"
    /\ mode = "file"
    /\ pc' = "done"
    /\ sig' = "eof"
    /\ UNCHANGED <<mode, logic, controllers, channels, previous_notes, queue,
                   exc, nev, finalStops, sent, queue0, out, last, pending,
                   stopSeen, dropped>>

Next ==
    \/ \E msg \in Messages, fail \in BOOLEAN : Step(msg, fail)
    \/ \E fail \in BOOLEAN : StepInterrupted(fail)
    \/ \E fail \in BOOLEAN : InterruptWaiting(fail)
    \/ EndOfFile

Spec == Init /\ [][Next]_vars

\* ---------------------------------------------------------------- vocabulary
Terminated == pc \in {"done", "killed"}
Polyphonic == logic = "polyphony"
\* sent is a note-on with velocity > 0.
SentNoteOn == sent.type = "note_on" /\ sent.velocity > 0
\* sent is a note-off or a velocity-zero note-on.
SentNoteOff ==
    \/ sent.type = "note_off"
    \/ sent.type = "note_on" /\ sent.velocity = 0
FreeIn(q) == {i \in DOMAIN q : q[i] = None}
MatchingIn(q, msg) ==
    {i \in DOMAIN q : q[i] # None /\ q[i] = [channel |-> msg.channel, note |-> msg.note]}
\* The (physical channel, note) pairs of the commands issued for sent, in order.
OutCommands == [k \in DOMAIN out |-> <<ChannelOf(out[k]), out[k].note>>]
\* No physical channel has a note as its last command.
AllSilent == \A i \in 0..channels : last[i] \in {note_stop, Never}

\* ---------------------------------------------------------------- C1
\* C1: under polyphony no two occupied slots of the pool hold the same
\* (source_channel, note) pair, whatever events were handled.
C1_NoDoubleBinding ==
    Polyphonic =>
        \A i, j \in 0..channels :
            (i # j /\ queue[i] # None /\ queue[j] # None) => queue[i] # queue[j]

\* ---------------------------------------------------------------- C2
\* C2: when file playback ends because the source is exhausted, the last
\* command on every physical channel is STOP (a channel that was never
\* commanded is silent too): no channel is left with a note commanded.
C2_StopOnEndOfFile ==
    (mode = "file" /\ sig = "eof" /\ pc = "done") => AllSilent

\* ---------------------------------------------------------------- C3
\* C3: once the process has ended after a keyboard interrupt, in file
\* playback or in live input, no physical channel is left with a note
\* commanded: the interrupt led to a STOP on every channel.
C3_InterruptStopsAll ==
    (sig = "interrupt" /\ Terminated) => AllSilent

\* ---------------------------------------------------------------- C4
\* C4: under polyphony, handling a stop message issues STOP on every physical
\* channel and leaves every slot unoccupied.
C4_StopAllClearsSlots ==
    (Polyphonic /\ sent = StopMsg) =>
        /\ OutCommands = [k \in 1..(channels + 1) |-> <<k - 1, note_stop>>]
        /\ \A i \in 0..channels : queue[i] = None

\* ---------------------------------------------------------------- C5
\* C5: the handler's stop-all is issued exactly once in every run: never
\* twice, once by the time the run has ended, and after it the loop no
\* longer waits for another event.
C5_StopAllExactlyOnce ==
    /\ finalStops <= 1
    /\ Terminated => finalStops = 1
    /\ finalStops >= 1 => pc # "wait"

\* ---------------------------------------------------------------- C6
\* The pool of 4 physical channels along the scenario
\* note_on(0,60), note_on(0,64), note_off(0,60).
Scenario_q0 == [i \in 0..3 |-> None]
Scenario_q1 == [Scenario_q0 EXCEPT ![0] = [channel |-> 0, note |-> 60]]
Scenario_q2 == [Scenario_q1 EXCEPT ![1] = [channel |-> 0, note |-> 64]]

\* C6: under polyphony a note-on with velocity > 0 that finds a free slot
\* binds the lowest-indexed free slot i to (source_channel, note), issues the
\* one command (i, note) and changes no other slot; with 4 physical channels
\* note_on(0,60), note_on(0,64), note_off(0,60) give the commands (0,60),
\* (1,64), (0,STOP) and leave slot 0 free.
C6_BindsLowestFree ==
    /\ (Polyphonic /\ SentNoteOn /\ FreeIn(queue0) # {}) =>
          \E i \in FreeIn(queue0) :
              /\ \A j \in FreeIn(queue0) : i <= j
              /\ queue = [queue0 EXCEPT
                            ![i] = [channel |-> sent.channel, note |-> sent.note]]
              /\ OutCommands = << <<i, sent.note>> >>
    /\ (Polyphonic /\ channels = 3) =>
          /\ (queue0 = Scenario_q0 /\ sent = NoteOn(0, 60, 100)) =>
                (OutCommands = << <<0, 60>> >> /\ queue = Scenario_q1)
          /\ (queue0 = Scenario_q1 /\ sent = NoteOn(0, 64, 100)) =>
                (OutCommands = << <<1, 64>> >> /\ queue = Scenario_q2)
          /\ (queue0 = Scenario_q2 /\ sent = NoteOff(0, 60)) =>
                (OutCommands = << <<0, note_stop>> >> /\ queue[0] = None)

\* The second note-on of the scenario was bound to slot 1, slot 0 being taken.
C6_Witness ==
    /\ Polyphonic /\ channels = 3 /\ nev = 2
    /\ queue0 = Scenario_q1
    /\ sent = NoteOn(0, 64, 100)
    /\ queue = Scenario_q2
    /\ OutCommands = << <<1, 64>> >>

\* ---------------------------------------------------------------- C7
\* C7: under polyphony a note-on with velocity > 0 that finds every slot
\* occupied is dropped: no command is issued and every slot keeps its binding.
C7_DropsWhenFull ==
    (Polyphonic /\ SentNoteOn /\ FreeIn(queue0) = {}) =>
        (out = <<>> /\ queue = queue0)

\* A note-on for a pair that is not bound arrived at a full pool and was dropped.
C7_Witness ==
    /\ Polyphonic /\ SentNoteOn
    /\ FreeIn(queue0) = {}
    /\ MatchingIn(queue0, sent) = {}
    /\ out = <<>>
    /\ queue = queue0

\* ---------------------------------------------------------------- C8
\* A note-off (or velocity-zero note-on) that matches an occupied slot
\* releases the lowest-indexed matching slot alone and issues the one
\* command (that channel, STOP).
C8_Release ==
    (Polyphonic /\ SentNoteOff /\ MatchingIn(queue0, sent) # {}) =>
        \E i \in MatchingIn(queue0, sent) :
            /\ \A j \in MatchingIn(queue0, sent) : i <= j
            /\ queue = [queue0 EXCEPT ![i] = None]
            /\ OutCommands = << <<i, note_stop>> >>

\* A note-on for the pair that was just released binds the lowest-indexed
\* free slot.
C8_Rebind ==
    (/\ Polyphonic /\ SentNoteOff /\ out # <<>>
     /\ sent'.type = "note_on" /\ sent'.velocity > 0
     /\ sent'.channel = sent.channel /\ sent'.note = sent.note) =>
        \E i \in FreeIn(queue) :
            /\ \A j \in FreeIn(queue) : i <= j
            /\ queue' = [queue EXCEPT
                           ![i] = [channel |-> sent.channel, note |-> sent.note]]
            /\ out' # <<>>
            /\ \A k \in DOMAIN out' :
                  ChannelOf(out'[k]) = i /\ out'[k].note = sent.note

\* C8: under polyphony a matching note-off (or velocity-zero note-on) releases
\* exactly one slot, the lowest-indexed matching one, issues exactly the
\* command (that channel, STOP) and leaves the other slots unchanged; an
\* identical note-on that follows binds the lowest-indexed free slot.
C8_ReleasesLowestMatch == []C8_Release /\ [][C8_Rebind]_vars

\* A note-off matched two slots holding its pair and released the lower one.
C8_Witness ==
    /\ Polyphonic /\ SentNoteOff
    /\ Cardinality(MatchingIn(queue0, sent)) >= 2
    /\ Cardinality(MatchingIn(queue, sent)) = Cardinality(MatchingIn(queue0, sent)) - 1
    /\ Len(out) = 1 /\ out[1].note = note_stop

\* ---------------------------------------------------------------- C9
\* C9: under polyphony a note-off or velocity-zero note-on whose pair matches
\* no occupied slot is a no-op: no command is issued and no slot changes.
C9_UnmatchedOffIsNoOp ==
    (Polyphonic /\ SentNoteOff /\ MatchingIn(queue0, sent) = {}) =>
        (out = <<>> /\ queue = queue0)

\* An unmatched note-off arrived while another source channel held the same
\* note, one slot had already been released, and nothing happened.
C9_Witness ==
    /\ Polyphonic /\ SentNoteOff
    /\ MatchingIn(queue0, sent) = {}
    /\ \E i \in 0..channels : queue0[i] # None /\ queue0[i].note = sent.note
    /\ \E i \in 0..channels : queue0[i] = None /\ last[i] = note_stop
    /\ finalStops = 0
    /\ out = <<>>
    /\ queue = queue0

\* ---------------------------------------------------------------- C10
SingleVoice == logic = "single_voice"

\* Whatever was sounding, a note-on with velocity > 0 on an in-range source
\* channel c issues the one command (c, note), and no message makes the port
\* issue a command for another channel or another note than its own.
C10_Command ==
    /\ (SingleVoice /\ SentNoteOn /\ sent.channel <= channels) =>
          /\ OutCommands = << <<sent.channel, sent.note>> >>
          /\ last[sent.channel] = sent.note
    /\ (SingleVoice /\ sent.type \in {"note_on", "note_off"}) =>
          /\ queue = queue0
          /\ \A k \in DOMAIN out :
                /\ ChannelOf(out[k]) = sent.channel
                /\ out[k].note \in {sent.note, note_stop}

\* Two consecutive note-ons on one source channel: the second note is the
\* channel's last command and no other channel is commanded.
C10_SecondWins ==
    (/\ SingleVoice /\ SentNoteOn /\ sent.channel <= channels
     /\ sent'.type = "note_on" /\ sent'.velocity > 0
     /\ sent'.channel = sent.channel) =>
        /\ last'[sent.channel] = sent'.note
        /\ \A j \in 0..channels : j # sent.channel => last'[j] = last[j]

\* C10: under single-voice every note-on with velocity > 0 on an in-range
\* source channel c issues exactly the command (c, note) and none on another
\* channel; after two consecutive note-ons on one source channel the last
\* command there is the second note and nothing of the first is replayed.
C10_SingleVoiceLatestNote == []C10_Command /\ [][C10_SecondWins]_vars

\* A second note-on on the highest in-range channel replaced a sounding note.
C10_Witness ==
    /\ SingleVoice /\ SentNoteOn
    /\ sent.channel = channels
    /\ nev >= 2 /\ finalStops = 0
    /\ OutCommands = << <<sent.channel, sent.note>> >>
    /\ last[sent.channel] = sent.note
    /\ \A j \in 0..channels : j # sent.channel => last[j] = Never

\* ---------------------------------------------------------------- C11
\* C11: under single-voice a note-on or note-off whose source channel c is
\* outside [0, 2*controller_count) is ignored: no command, no error, no change
\* of allocator state; every c inside the range is accepted and its command
\* goes to peripheral c \div 2, pad c % 2.
C11_RangeOfSourceChannels ==
    (SingleVoice /\ sent.type \in {"note_on", "note_off"}) =>
        IF sent.channel \in 0..(2 * controllers - 1)
        THEN /\ Len(out) = 1
             /\ out[1].controller = sent.channel \div 2
             /\ out[1].haptic = sent.channel % 2
             /\ exc = "none"
        ELSE /\ out = <<>>
             /\ queue = queue0
             /\ previous_notes = [i \in 0..channels |-> 0]
             /\ exc = "none"
             /\ pc # "killed"

\* With one controller a message on source channel 2 was ignored after a note
\* had been commanded, and the loop waits for the next message.
C11_Witness ==
    /\ SingleVoice /\ controllers = 1
    /\ sent.type \in {"note_on", "note_off"}
    /\ sent.channel = 2
    /\ out = <<>>
    /\ \E i \in 0..channels : last[i] \in Notes
    /\ pc = "wait"

\* ---------------------------------------------------------------- C12
\* The (physical channel, note) pairs of the commands cmds, in order.
Commands(cmds) == [k \in DOMAIN cmds |-> <<ChannelOf(cmds[k]), cmds[k].note>>]

\* The note-off for the pair of a velocity-zero note-on, and the reverse.
Twin(msg) ==
    IF msg.type = "note_on"
    THEN NoteOff(msg.channel, msg.note)
    ELSE NoteOn(msg.channel, msg.note, 0)

\* C12: under either policy, whatever the allocator state, a velocity-zero
\* note-on and a note-off for the same (source_channel, note) issue the same
\* commands and leave the same allocator state: what the port did with the
\* one it was sent is what it does, from the same state, with the other.
\* Under single-voice that is the one command (c, STOP).
C12_VelocityZeroIsNoteOff ==
    (logic \in {"single_voice", "polyphony"} /\ SentNoteOff) =>
        LET r == send(logic, channels, queue0, Twin(sent), FALSE)
        IN /\ r.raised = "none"
           /\ exc \in {"none", "KeyboardInterrupt"}
           /\ queue = r.queue
           /\ OutCommands = Commands(r.cmds)
           /\ (SingleVoice /\ sent.channel <= channels) =>
                 OutCommands = << <<sent.channel, note_stop>> >>

\* A velocity-zero note-on released the slot that held its pair.
C12_Witness ==
    /\ Polyphonic
    /\ sent.type = "note_on" /\ sent.velocity = 0
    /\ MatchingIn(queue0, sent) # {}
    /\ queue # queue0
    /\ Len(out) = 1 /\ out[1].note = note_stop

\* ---------------------------------------------------------------- C13
\* A ctrl_transfer failed while the message sent was handled.
TransferFailed == \E k \in DOMAIN out : out[k].error

\* The failure changed nothing but the error print: the allocator state and
\* the commands issued (no retry) are those of a handling without failure,
\* and the process was not ended by the failure.
C13_AsIfSucceeded ==
    TransferFailed =>
        LET r == send(logic, channels, queue0, sent, FALSE)
        IN /\ queue = r.queue
           /\ OutCommands = Commands(r.cmds)
           /\ exc # "USBError"
           /\ pc = "killed" => exc \in ({"KeyboardInterrupt", r.raised} \ {"none"})

\* The message pulled after a failed transfer is handled as from any state.
C13_NextEvent ==
    (TransferFailed /\ pc = "wait" /\ nev' = nev + 1) =>
        LET r == send(logic, channels, queue, sent', FALSE)
        IN /\ queue' = r.queue
           /\ Commands(out') = Commands(r.cmds)
           /\ exc' = r.raised

\* C13: a failed pulse-command transfer does not abort the stream and does not
\* roll back allocator state: the binding or release takes effect as if the
\* transfer had succeeded, no retry is issued, and the next event is handled
\* normally.
C13_TransferFailureIsLocal == []C13_AsIfSucceeded /\ [][C13_NextEvent]_vars

\* The transfer of a note-on's command failed: the slot is bound all the same
\* and the loop waits for the next message.
C13_Witness ==
    /\ Polyphonic /\ SentNoteOn
    /\ TransferFailed
    /\ Len(out) = 1
    /\ queue # queue0
    /\ queue[ChannelOf(out[1])] = [channel |-> sent.channel, note |-> sent.note]
    /\ pc = "wait"

\* ---------------------------------------------------------------- C14
\* C14: an unrecognized policy name is rejected at startup, before any event
\* is pulled from the source or dispatched: with such a name no message is
\* ever pulled or sent to the port, and the ValueError that rejects the name
\* is never raised by the dispatch of a message.
C14_PolicyRejectedAtStartup ==
    /\ logic \notin {"single_voice", "polyphony"} => (nev = 0 /\ sent = NoMsg)
    /\ exc = "ValueError" => sent = NoMsg

\* ---------------------------------------------------------------- C15
\* The process was ended by an error that the dispatch of a message raised.
DispatchFailed == pc = "killed" /\ exc \notin {"none", "KeyboardInterrupt"}

\* C15: the stop-all finalization runs even when the dispatch of the most
\* recent event raised an error of any kind: the process does not end on such
\* an error with a note still commanded on a physical channel.
C15_StopAllAfterDispatchError == DispatchFailed => AllSilent

\* ---------------------------------------------------------------- C16
\* C16: under single-voice the recorded last note of a channel follows the
\* commands: after a note-on with velocity > 0 on in-range channel c it is
\* that note, after a note-off or velocity-zero note-on on c it is STOP.
C16_LastNoteTracksCommands ==
    (SingleVoice /\ sent.type \in {"note_on", "note_off"} /\ sent.channel <= channels) =>
        previous_notes[sent.channel] = (IF SentNoteOn THEN sent.note ELSE note_stop)

\* ---------------------------------------------------------------- C17
\* C17: under polyphony, on every physical channel i, slot i is occupied
\* exactly when the last command issued to channel i was a note, and then
\* the slot's note is that note; a channel never commanded counts as STOP.
C17_SlotsAgreeWithOutput ==
    Polyphonic =>
        \A i \in 0..channels :
            /\ (queue[i] # None) <=> (last[i] \notin {note_stop, Never})
            /\ queue[i] # None => queue[i].note = last[i]

\* ------------------------------------------------------------------- C18
\* A longer source played through one controller (two physical channels)
\* under polyphony: long enough for a pool of two slots to fill, drop a
\* note-on and drain again.
MaxDrainEvents == 6

InitDrain ==
    /\ Init
    /\ mode = "file"
    /\ logic = "polyphony"
    /\ controllers = 1

DrainStep(msg, fail) ==
    /\ nev < MaxDrainEvents
    /\ Dispatch(msg, fail)

NextDrain ==
    \/ \E msg \in Messages, fail \in BOOLEAN : DrainStep(msg, fail)
    \/ EndOfFile

SpecDrain == InitDrain /\ [][NextDrain]_vars

\* Every note-on sent so far has been answered by a later note-off (or
\* velocity-zero note-on) of its own channel and note.
AllAnswered == \A p \in DOMAIN pending : pending[p] = 0

\* C18: under polyphony, once every note-on of the sequence has been followed
\* by its own note-off, and no stop message was sent, every slot is free and
\* the last command on every commanded channel is STOP; dropped and duplicate
\* note-ons included.
C18_DrainedPoolIsSilent ==
    (Polyphonic /\ ~stopSeen /\ AllAnswered) =>
        /\ \A i \in 0..channels : queue[i] = None
        /\ AllSilent

\* Three note-ons reached a pool of two slots and the third was dropped; three
\* note-offs then answered them, the last of them finding no slot to release.
C18_Witness ==
    /\ Polyphonic /\ ~stopSeen /\ AllAnswered
    /\ dropped
    /\ channels = 1
    /\ sent = NoteOff(0, 60)
    /\ MatchingIn(queue0, sent) = {}
    /\ out = <<>>
    /\ last = [i \in 0..1 |-> note_stop]

\* ------------------------------------------------------------------- C19
\* C19: under single_voice, dispatching the stop message issues exactly one
\* STOP command per physical channel, in channel order, and returns normally:
\* no exception is raised and the program is not killed by it.
C19_StopReturnsNormally ==
    (SingleVoice /\ sent = StopMsg) =>
        /\ OutCommands = [k \in 1..(channels + 1) |-> <<k - 1, note_stop>>]
        /\ exc = "none"
        /\ pc # "killed"
====
